---- MODULE Spec2Model ----
(***************************************************************************)
(* Model of src/vppinfra/unix-misc.c: the exact-size file reader           *)
(* (clib_file_contents), the streaming pseudo-file reader                  *)
(* (unix_proc_file_contents), the symlink basename resolver                *)
(* (clib_file_get_resolved_basename), the diagnostic writer (os_puts) and  *)
(* the affinity query (os_get_cpu_affinity_bitmap).                        *)
(***************************************************************************)
EXTENDS Integers, Sequences, FiniteSets, TLC

(* ---------------------------------------------------------------------- *)
(* Bounds of the exploration                                               *)
(* ---------------------------------------------------------------------- *)
MaxFileLen == 3        \* longest small file, in bytes
MaxChunks == 2         \* large files hold up to MaxChunks full chunks (+1 byte)
MaxShortReads == 2     \* reads that return fewer bytes than available
MaxTruncs == 1         \* concurrent truncations of the file being read
MaxTarget == 4         \* longest symlink target, in bytes
MaxUnits == 2          \* execution units calling os_puts
MaxCalls == 2          \* os_puts calls, over all execution units

(* ---------------------------------------------------------------------- *)
(* Program constants                                                       *)
(* ---------------------------------------------------------------------- *)
CHUNK == 4096          \* read size and growth step of unix_proc_file_contents
FD == 3                \* the descriptor open() hands out (first free one)
PATH_MAX == 4096       \* size of the readlink buffer
SIZEOF_CPU_SET_T == 128 \* sizeof (cpu_set_t), in bytes
CPU_SETSIZE == 1024    \* bits of a cpu_set_t

ByteVals == {0, 65}

VARIABLES
  op,        \* which reader runs: "exact" or "stream"
  pc,        \* position of the running call
  file,      \* the file system entry named by the path
  offset,    \* file offset of the open descriptor
  open_fds,  \* descriptors currently open in the process
  n_open,    \* number of successful open() calls
  n_close,   \* number of close() calls issued on FD
  heap,      \* live vector allocations
  oob,       \* a read stored bytes past the end of its buffer
  s,         \* struct stat filled by clib_file_n_bytes
  n_bytes, v, n_done, n_left, error,    \* locals of the exact reader
  rv, pos,                              \* locals of the streaming reader
  result,    \* the caller's result slot
  ret,       \* the value returned to the caller
  returned,  \* all bytes handed out by read() so far, in order
  n_reads,   \* number of read() calls issued
  saw_eof,   \* a read() returned 0
  n_short,   \* short reads so far
  n_trunc,   \* truncations so far
  bpc,       \* position of the clib_file_get_resolved_basename call
  target,    \* what the link names: the bytes readlink() stores, or no link
  bn,        \* value returned by clib_file_get_resolved_basename
  nthreads,  \* what os_get_nthreads () reports
  os_thread_index, \* __os_thread_index of every execution unit
  upc,       \* position of every unit inside os_puts
  arg,       \* arguments of every unit's current os_puts call
  iovs,      \* iovec array every unit has built
  calls,     \* per unit, the os_puts calls that have returned
  stream,    \* bytes the kernel has appended to fd 1 and fd 2
  n_puts,    \* os_puts calls entered so far
  apc,       \* position of the os_get_cpu_affinity_bitmap call
  affinity,  \* the kernel's affinity mask of every process
  caller,    \* the process that calls os_get_cpu_affinity_bitmap
  pid,       \* argument of os_get_cpu_affinity_bitmap
  cpuset,    \* the native record filled by the query
  affinity_cpus \* value returned by os_get_cpu_affinity_bitmap

readerVars == <<op, pc, file, offset, open_fds, n_open, n_close, heap, oob, s,
                n_bytes, v, n_done, n_left, error, rv, pos, result, ret,
                returned, n_reads, saw_eof, n_short, n_trunc>>

basenameVars == <<bpc, target, bn>>

putsVars == <<nthreads, os_thread_index, upc, arg, iovs, calls, stream,
              n_puts>>

affinityVars == <<apc, affinity, caller, pid, cpuset, affinity_cpus>>

vars == <<readerVars, basenameVars, putsVars, affinityVars>>

(* ---------------------------------------------------------------------- *)
(* Helpers                                                                 *)
(* ---------------------------------------------------------------------- *)
Min(a, b) == IF a < b THEN a ELSE b

Zeros(n) == [i \in 1..n |-> 0]

RECURSIVE SeqsUpTo(_)
SeqsUpTo(n) ==
  IF n = 0 THEN {<< >>}
  ELSE LET shorter == SeqsUpTo(n - 1)
       IN shorter \cup {Append(q, b) : q \in {x \in shorter : Len(x) = n - 1},
                                       b \in ByteVals}

\* contents of a large file: a position-dependent pattern
Pattern(len, seed) == [i \in 1..len |-> (i * 7 + seed) % 256]

SmallData == SeqsUpTo(MaxFileLen)
LargeData == {Pattern(k * CHUNK + d, seed) :
                k \in 1..MaxChunks, d \in {0, 1}, seed \in {0}}

\* the counts a read() of at most m available bytes may return
ReadCounts(m, shorts) ==
  {m} \cup (IF shorts < MaxShortReads
            THEN {k \in {1, m \div 2, m - 1} : k >= 1 /\ k < m}
            ELSE {})

TruncLens(len) == {k \in {0, len \div 2, len - 1} : k >= 0 /\ k < len}

(* ---------------------------------------------------------------------- *)
(* Vector primitives used by the readers                                   *)
(* ---------------------------------------------------------------------- *)
\* vec_resize (v, n) on a null vector: n zeroed elements
vec_resize(vec, n) == vec \o Zeros(n)

\* vec_validate (v, i): make index i valid, new elements zeroed
vec_validate(vec, i) ==
  IF Len(vec) > i THEN vec ELSE vec \o Zeros(i + 1 - Len(vec))

\* vec_set_len (v, n)
vec_set_len(vec, n) == SubSeq(vec, 1, n)

\* bytes stored by read (fd, buf + at, ...) returning chunk: the part of the
\* chunk that falls inside the buffer replaces what was there
store(buf, at, chunk) ==
  [i \in 1..Len(buf) |->
     IF i > at /\ i <= at + Len(chunk) THEN chunk[i - at] ELSE buf[i]]

(* ---------------------------------------------------------------------- *)
(* clib_file_n_bytes                                                       *)
(* ---------------------------------------------------------------------- *)
\* stat (2) on the entry
stat(f) == [isreg |-> f.isreg,
            st_size |-> IF f.isreg THEN Len(f.data) ELSE f.st_size]

\* variant: the size is taken from st_size whatever the entry is
clib_file_n_bytes_any(st) == st.st_size

\* lines 67-70
clib_file_n_bytes(st) == IF st.isreg THEN st.st_size ELSE 0

\* variant: the test of line 102 is left out
short_read_never(left) == FALSE

\* the test of line 102: end-of-stream came before the requested length
short_read(left) == left > 0

(* ---------------------------------------------------------------------- *)
(* The file system entries the readers are run on                          *)
(* ---------------------------------------------------------------------- *)
Missing == [exists |-> FALSE, readable |-> FALSE, isreg |-> TRUE,
            st_size |-> 0, data |-> << >>]

Entries(datas) ==
  {f \in [exists : {TRUE}, readable : BOOLEAN, isreg : BOOLEAN,
          st_size : {0, CHUNK}, data : datas] :
     f.isreg => f.st_size = 0}

Files(o) ==
  {Missing} \cup Entries(SmallData)
            \cup (IF o = "stream" THEN Entries(LargeData) ELSE {})

NoResult == [set |-> FALSE, v |-> << >>]

ReaderStart ==
  /\ op \in {"exact", "stream"}
  /\ pc = "start"
  /\ file \in Files(op)
  /\ offset = 0
  /\ open_fds = {}
  /\ n_open = 0
  /\ n_close = 0
  /\ heap = {}
  /\ oob = FALSE
  /\ s = [isreg |-> FALSE, st_size |-> 0]
  /\ n_bytes = 0 /\ v = << >> /\ n_done = 0 /\ n_left = 0 /\ error = "none"
  /\ rv = << >> /\ pos = 0
  /\ result = NoResult
  /\ ret = "none"
  /\ returned = << >>
  /\ n_reads = 0
  /\ saw_eof = FALSE
  /\ n_short = 0
  /\ n_trunc = 0

\* no reader call in progress
ReaderIdle ==
  /\ op = "none" /\ pc = "idle" /\ file = Missing
  /\ offset = 0 /\ open_fds = {} /\ n_open = 0 /\ n_close = 0
  /\ heap = {} /\ oob = FALSE
  /\ s = [isreg |-> FALSE, st_size |-> 0]
  /\ n_bytes = 0 /\ v = << >> /\ n_done = 0 /\ n_left = 0 /\ error = "none"
  /\ rv = << >> /\ pos = 0 /\ result = NoResult /\ ret = "none"
  /\ returned = << >> /\ n_reads = 0 /\ saw_eof = FALSE
  /\ n_short = 0 /\ n_trunc = 0

\* bytes left between the descriptor's offset and the end of the file
Avail == IF Len(file.data) > offset THEN Len(file.data) - offset ELSE 0

(* ---------------------------------------------------------------------- *)
(* clib_file_contents / clib_file_read_contents                            *)
(* ---------------------------------------------------------------------- *)
\* lines 121-125: size from metadata, then the buffer of that size
clib_file_contents_stat ==
  /\ op = "exact" /\ pc = "start"
  /\ IF ~file.exists
     THEN /\ ret' = "stat"
          /\ pc' = "done"
          /\ UNCHANGED <<s, n_bytes, v, heap>>
     ELSE /\ s' = stat(file)
          /\ n_bytes' = clib_file_n_bytes(s')
          /\ v' = vec_resize(<< >>, n_bytes')
          /\ heap' = heap \cup {"v"}
          /\ pc' = "open"
          /\ UNCHANGED ret
  /\ UNCHANGED <<n_open, op, file, offset, open_fds, n_close, oob, n_done, n_left,
                 error, rv, pos, result, returned, n_reads, saw_eof,
                 n_short, n_trunc>>
  /\ UNCHANGED <<basenameVars, putsVars, affinityVars>>

\* lines 82-86
clib_file_read_contents_open ==
  /\ op = "exact" /\ pc = "open"
  /\ IF ~file.readable
     THEN /\ error' = "open"
          /\ pc' = "ret"
          /\ UNCHANGED <<open_fds, n_open, offset, n_left, n_done>>
     ELSE /\ open_fds' = open_fds \cup {FD}
          /\ n_open' = n_open + 1
          /\ offset' = 0
          /\ n_left' = n_bytes
          /\ n_done' = 0
          /\ error' = "none"
          /\ pc' = "loop"
  /\ UNCHANGED <<op, file, n_close, heap, oob, s, n_bytes, v, rv, pos,
                 result, ret, returned, n_reads, saw_eof, n_short, n_trunc>>
  /\ UNCHANGED <<basenameVars, putsVars, affinityVars>>

\* lines 87-100: one iteration of the read loop
clib_file_read_contents_read ==
  /\ op = "exact" /\ pc = "loop" /\ n_left > 0
  /\ n_reads' = n_reads + 1
  /\ \/ /\ error' = "read"                        \* n_read < 0
        /\ pc' = "close"
        /\ UNCHANGED <<v, n_left, n_done, offset, returned, saw_eof, n_short,
                       oob>>
     \/ /\ Avail = 0                              \* n_read == 0
        /\ saw_eof' = TRUE
        /\ pc' = "check"
        /\ UNCHANGED <<v, n_left, n_done, offset, returned, error, n_short,
                       oob>>
     \/ /\ Avail > 0
        /\ \E k \in ReadCounts(Min(n_left, Avail), n_short) :
             LET chunk == SubSeq(file.data, offset + 1, offset + k)
             IN /\ v' = store(v, n_done, chunk)
                /\ oob' = (oob \/ n_done + k > Len(v))
                /\ n_left' = n_left - k
                /\ n_done' = n_done + k
                /\ offset' = offset + k
                /\ returned' = returned \o chunk
                /\ n_short' = IF k < Min(n_left, Avail) THEN n_short + 1
                              ELSE n_short
        /\ UNCHANGED <<pc, error, saw_eof>>
  /\ UNCHANGED <<n_open, op, file, open_fds, n_close, heap, s, n_bytes, rv, pos,
                 result, ret, n_trunc>>
  /\ UNCHANGED <<basenameVars, putsVars, affinityVars>>

\* lines 102-112: the short-read test, then done: close and return
clib_file_read_contents_done ==
  /\ op = "exact"
  /\ \/ pc = "loop" /\ n_left = 0
     \/ pc \in {"check", "close"}
  /\ error' = IF pc = "close" THEN error
              ELSE IF short_read(n_left) THEN "short" ELSE "none"
  /\ open_fds' = open_fds \ {FD}
  /\ n_close' = n_close + 1
  /\ pc' = "ret"
  /\ UNCHANGED <<n_open, op, file, offset, heap, oob, s, n_bytes, v, n_done, n_left,
                 rv, pos, result, ret, returned, n_reads, saw_eof, n_short,
                 n_trunc>>
  /\ UNCHANGED <<basenameVars, putsVars, affinityVars>>

\* variant: the buffer is kept on failure
clib_file_contents_return_leak ==
  /\ op = "exact" /\ pc = "ret"
  /\ IF error # "none"
     THEN UNCHANGED <<heap, v, result>>
     ELSE /\ result' = [set |-> TRUE, v |-> v]
          /\ UNCHANGED <<heap, v>>
  /\ ret' = error
  /\ pc' = "done"
  /\ UNCHANGED <<n_open, op, file, offset, open_fds, n_close, oob, s, n_bytes,
                 n_done, n_left, error, rv, pos, returned, n_reads, saw_eof,
                 n_short, n_trunc>>
  /\ UNCHANGED <<basenameVars, putsVars, affinityVars>>

\* lines 129-134
clib_file_contents_return ==
  /\ op = "exact" /\ pc = "ret"
  /\ IF error # "none"
     THEN /\ heap' = heap \ {"v"}
          /\ v' = << >>
          /\ UNCHANGED result
     ELSE /\ result' = [set |-> TRUE, v |-> v]
          /\ UNCHANGED <<heap, v>>
  /\ ret' = error
  /\ pc' = "done"
  /\ UNCHANGED <<n_open, op, file, offset, open_fds, n_close, oob, s, n_bytes,
                 n_done, n_left, error, rv, pos, returned, n_reads, saw_eof,
                 n_short, n_trunc>>
  /\ UNCHANGED <<basenameVars, putsVars, affinityVars>>

(* ---------------------------------------------------------------------- *)
(* unix_proc_file_contents                                                 *)
(* ---------------------------------------------------------------------- *)
\* variant: only the cursor itself is made valid
grow_to_cursor(vec, cursor) == vec_validate(vec, cursor)

\* line 194: room for one more full chunk after the cursor
grow(vec, cursor) == vec_validate(vec, cursor + (CHUNK - 1))

\* lines 174-180
unix_proc_file_contents_open ==
  /\ op = "stream" /\ pc = "start"
  /\ IF ~(file.exists /\ file.readable)
     THEN /\ ret' = "open"
          /\ pc' = "done"
          /\ UNCHANGED <<open_fds, n_open, offset, rv, heap, pos>>
     ELSE /\ open_fds' = open_fds \cup {FD}
          /\ n_open' = n_open + 1
          /\ offset' = 0
          /\ rv' = vec_validate(<< >>, CHUNK - 1)
          /\ heap' = heap \cup {"rv"}
          /\ pos' = 0
          /\ pc' = "sloop"
          /\ UNCHANGED ret
  /\ UNCHANGED <<op, file, n_close, oob, s, n_bytes, v, n_done, n_left,
                 error, result, returned, n_reads, saw_eof, n_short, n_trunc>>
  /\ UNCHANGED <<basenameVars, putsVars, affinityVars>>

\* variant: the failed read returns without closing
unix_proc_file_contents_read_error_noclose ==
  /\ heap' = heap \ {"rv"}
  /\ rv' = << >>
  /\ ret' = "read"
  /\ pc' = "done"
  /\ UNCHANGED <<pos, offset, returned, saw_eof, n_short, oob, open_fds,
                 n_close>>

\* lines 183-187: a failed read closes, frees and returns the error
unix_proc_file_contents_read_error ==
  /\ open_fds' = open_fds \ {FD}
  /\ n_close' = n_close + 1
  /\ heap' = heap \ {"rv"}
  /\ rv' = << >>
  /\ ret' = "read"
  /\ pc' = "done"
  /\ UNCHANGED <<pos, offset, returned, saw_eof, n_short, oob>>

\* variant: the vector keeps its grown length at end-of-stream
unix_proc_file_contents_eof_nocut ==
  /\ saw_eof' = TRUE
  /\ pc' = "sbreak"
  /\ UNCHANGED <<rv, pos, offset, returned, n_short, oob, open_fds, n_close,
                 heap, ret>>

\* lines 189-192: end-of-stream cuts the vector at the cursor
unix_proc_file_contents_eof ==
  /\ rv' = vec_set_len(rv, pos)
  /\ saw_eof' = TRUE
  /\ pc' = "sbreak"
  /\ UNCHANGED <<pos, offset, returned, n_short, oob, open_fds, n_close,
                 heap, ret>>

\* lines 181-195: one iteration of the loop
unix_proc_file_contents_read ==
  /\ op = "stream" /\ pc = "sloop"
  /\ n_reads' = n_reads + 1
  /\ \/ unix_proc_file_contents_read_error         \* bytes < 0
     \/ /\ Avail = 0                               \* bytes == 0
        /\ unix_proc_file_contents_eof
     \/ /\ Avail > 0
        /\ \E k \in ReadCounts(Min(CHUNK, Avail), n_short) :
             LET chunk == SubSeq(file.data, offset + 1, offset + k)
             IN /\ oob' = (oob \/ pos + k > Len(rv))
                /\ pos' = pos + k
                /\ rv' = grow(store(rv, pos, chunk), pos')
                /\ offset' = offset + k
                /\ returned' = returned \o chunk
                /\ n_short' = IF k < Min(CHUNK, Avail) THEN n_short + 1
                              ELSE n_short
        /\ UNCHANGED <<pc, saw_eof, open_fds, n_close, heap, ret>>
  /\ UNCHANGED <<n_open, op, file, s, n_bytes, v, n_done, n_left, error, result,
                 n_trunc>>
  /\ UNCHANGED <<basenameVars, putsVars, affinityVars>>

\* lines 196-198
unix_proc_file_contents_return ==
  /\ op = "stream" /\ pc = "sbreak"
  /\ result' = [set |-> TRUE, v |-> rv]
  /\ open_fds' = open_fds \ {FD}
  /\ n_close' = n_close + 1
  /\ ret' = "none"
  /\ pc' = "done"
  /\ UNCHANGED <<n_open, op, file, offset, heap, oob, s, n_bytes, v, n_done, n_left,
                 error, rv, pos, returned, n_reads, saw_eof, n_short,
                 n_trunc>>
  /\ UNCHANGED <<basenameVars, putsVars, affinityVars>>

(* ---------------------------------------------------------------------- *)
(* Environment: another process truncates the regular file being read      *)
(* ---------------------------------------------------------------------- *)
Truncate ==
  /\ pc \in {"open", "loop", "sloop"}
  /\ file.isreg
  /\ n_trunc < MaxTruncs
  /\ \E n \in TruncLens(Len(file.data)) :
       file' = [file EXCEPT !.data = SubSeq(@, 1, n)]
  /\ n_trunc' = n_trunc + 1
  /\ UNCHANGED <<n_open, op, pc, offset, open_fds, n_close, heap, oob, s, n_bytes, v,
                 n_done, n_left, error, rv, pos, result, ret, returned,
                 n_reads, saw_eof, n_short>>
  /\ UNCHANGED <<basenameVars, putsVars, affinityVars>>

(* ---------------------------------------------------------------------- *)
(* clib_file_get_resolved_basename                                         *)
(* ---------------------------------------------------------------------- *)
NUL == "NUL"
PathChars == {"/", "a", "b"}

RECURSIVE PathsUpTo(_)
PathsUpTo(n) ==
  IF n = 0 THEN {<< >>}
  ELSE LET shorter == PathsUpTo(n - 1)
       IN shorter \cup {Append(q, c) : q \in {x \in shorter : Len(x) = n - 1},
                                       c \in PathChars}

NoLink == [islink |-> FALSE, path |-> << >>]
Targets == {NoLink} \cup
           {[islink |-> TRUE, path |-> q] : q \in PathsUpTo(MaxTarget) \ {<< >>}}

\* line 149: readlink stores at most bufsiz bytes and returns their number,
\* or -1 when the path is not a symbolic link
readlink(t, bufsiz) == IF t.islink THEN Min(Len(t.path), bufsiz) ELSE -1

\* lines 156-158: index (from 0) in buffer of the first byte of the last
\* segment; buffer is indexed from 1 here, so buffer[q] is p[-1]
RECURSIVE scan_back(_, _)
scan_back(buffer, q) ==
  IF q > 0 /\ buffer[q] # "/" THEN scan_back(buffer, q - 1) ELSE q

\* lines 160-161: copy bytes from index q (from 0) up to the terminator
RECURSIVE copy_from(_, _)
copy_from(buffer, q) ==
  IF buffer[q + 1] # NUL THEN <<buffer[q + 1]>> \o copy_from(buffer, q + 1)
  ELSE << >>

\* lines 155-164 for a readlink result of r >= 1 bytes
resolved_basename(t, r) ==
  LET buffer == SubSeq(t.path, 1, r) \o <<NUL>>
      p == scan_back(buffer, r - 1)
  IN copy_from(buffer, p) \o <<NUL>>

Absent == [present |-> FALSE, s |-> << >>]

BasenameStart ==
  /\ bpc = "start"
  /\ target \in Targets
  /\ bn = Absent

BasenameIdle ==
  /\ bpc = "idle" /\ target = NoLink /\ bn = Absent

\* lines 138-165
clib_file_get_resolved_basename ==
  /\ bpc = "start"
  /\ LET r == readlink(target, PATH_MAX - 1)
     IN bn' = IF r < 1 THEN Absent
              ELSE [present |-> TRUE, s |-> resolved_basename(target, r)]
  /\ bpc' = "done"
  /\ UNCHANGED target
  /\ UNCHANGED <<readerVars, putsVars, affinityVars>>

\* the target is replaced before the next resolution
Relink ==
  /\ bpc = "done"
  /\ \E t \in Targets : t # target /\ target' = t
  /\ bpc' = "start"
  /\ bn' = Absent
  /\ UNCHANGED <<readerVars, putsVars, affinityVars>>

\* the path component held by a returned vector: the bytes before its NUL
RECURSIVE Component(_)
Component(str) ==
  IF str = << >> \/ Head(str) = NUL THEN << >>
  ELSE <<Head(str)>> \o Component(Tail(str))

(* ---------------------------------------------------------------------- *)
(* os_puts                                                                 *)
(* ---------------------------------------------------------------------- *)
Units == 0..(MaxUnits - 1)
IndexVals == {0, 12}
Payloads == {<<"x">>, <<"1", ":", " ">>}
DigitChar == <<"0", "1", "2", "3", "4", "5", "6", "7", "8", "9">>

\* "%d" of a non-negative int
RECURSIVE format_d(_)
format_d(n) ==
  IF n < 10 THEN <<DigitChar[n + 1]>>
  ELSE format_d(n \div 10) \o <<DigitChar[(n % 10) + 1]>>

\* line 228: snprintf (buf, sizeof (buf), "%d: ", cpu)
prefix(cpu) == format_d(cpu) \o <<":", " ">>

\* lines 225-237: the iovec array handed to writev
os_puts_iovs(cpu, n, string) ==
  (IF n > 1 THEN <<prefix(cpu)>> ELSE << >>) \o <<string>>

RECURSIVE Flatten(_)
Flatten(parts) ==
  IF parts = << >> THEN << >> ELSE Head(parts) \o Flatten(Tail(parts))

\* bytes as the kernel appends them, marked with the call they come from
Mark(bytes, u, n) == [i \in 1..Len(bytes) |-> [c |-> bytes[i], u |-> u, call |-> n]]

NoArg == [string |-> << >>, is_error |-> 0]

PutsStart ==
  /\ nthreads \in 1..MaxUnits
  /\ os_thread_index \in [Units -> IndexVals]
  /\ upc = [u \in Units |-> "idle"]
  /\ arg = [u \in Units |-> NoArg]
  /\ iovs = [u \in Units |-> << >>]
  /\ calls = [u \in Units |-> << >>]
  /\ stream = [fd \in {1, 2} |-> << >>]
  /\ n_puts = 0

PutsIdle ==
  /\ nthreads = 1
  /\ os_thread_index = [u \in Units |-> 0]
  /\ upc = [u \in Units |-> "idle"]
  /\ arg = [u \in Units |-> NoArg]
  /\ iovs = [u \in Units |-> << >>]
  /\ calls = [u \in Units |-> << >>]
  /\ stream = [fd \in {1, 2} |-> << >>]
  /\ n_puts = 0

\* lines 219-237: unit u enters os_puts and builds its iovec array
os_puts_build(u) ==
  /\ upc[u] = "idle"
  /\ n_puts < MaxCalls
  /\ n_puts' = n_puts + 1
  /\ \E string \in Payloads, is_error \in {0, 1} :
       /\ arg' = [arg EXCEPT ![u] = [string |-> string, is_error |-> is_error]]
       /\ iovs' = [iovs EXCEPT
                     ![u] = os_puts_iovs(os_thread_index[u], nthreads, string)]
  /\ upc' = [upc EXCEPT ![u] = "writev"]
  /\ UNCHANGED <<nthreads, os_thread_index, calls, stream>>
  /\ UNCHANGED <<readerVars, basenameVars, affinityVars>>

\* variant: one write per part of the array
os_puts_write_each(u) ==
  /\ upc[u] = "writev"
  /\ LET fd == IF arg[u].is_error # 0 THEN 2 ELSE 1
         n == Len(calls[u]) + 1
     IN /\ stream' = [stream EXCEPT ![fd] = @ \o Mark(Head(iovs[u]), u, n)]
        /\ calls' = IF Len(iovs[u]) = 1
                    THEN [calls EXCEPT
                            ![u] = Append(@, [string |-> arg[u].string,
                                              fd |-> fd, ok |-> TRUE])]
                    ELSE calls
  /\ iovs' = [iovs EXCEPT ![u] = Tail(@)]
  /\ upc' = [upc EXCEPT ![u] = IF Len(iovs[u]) = 1 THEN "idle" ELSE "writev"]
  /\ UNCHANGED <<nthreads, os_thread_index, arg, n_puts>>
  /\ UNCHANGED <<readerVars, basenameVars, affinityVars>>

\* line 239: one writev of the whole array; its failure is ignored
os_puts_writev(u) ==
  /\ upc[u] = "writev"
  /\ LET fd == IF arg[u].is_error # 0 THEN 2 ELSE 1
         n == Len(calls[u]) + 1
     IN \/ /\ stream' = [stream EXCEPT
                           ![fd] = @ \o Mark(Flatten(iovs[u]), u, n)]
           /\ calls' = [calls EXCEPT
                          ![u] = Append(@, [string |-> arg[u].string,
                                            fd |-> fd, ok |-> TRUE])]
        \/ /\ UNCHANGED stream                      \* writev returned < 0
           /\ calls' = [calls EXCEPT
                          ![u] = Append(@, [string |-> arg[u].string,
                                            fd |-> fd, ok |-> FALSE])]
  /\ iovs' = [iovs EXCEPT ![u] = << >>]
  /\ upc' = [upc EXCEPT ![u] = "idle"]
  /\ UNCHANGED <<nthreads, os_thread_index, arg, n_puts>>
  /\ UNCHANGED <<readerVars, basenameVars, affinityVars>>

(* ---------------------------------------------------------------------- *)
(* os_get_cpu_affinity_bitmap                                              *)
(* ---------------------------------------------------------------------- *)
Pids == {100, 200}
CpuIds == {0, 127, 128, CPU_SETSIZE - 1}

\* sched_getaffinity: pid 0 names the calling thread
sched_getaffinity(p) == affinity[IF p = 0 THEN caller ELSE p]

\* __CPU_ISSET_S (cpu, setsize, set)
CPU_ISSET_S(cpu, setsize, set) == cpu \div 8 < setsize /\ cpu \in set

\* line 273: the pid handed to the query
query_pid(p) == 0

\* lines 280-282: the ids copied from the native record
translate(set) ==
  {index \in 0..(SIZEOF_CPU_SET_T - 1) :
     CPU_ISSET_S(index, SIZEOF_CPU_SET_T, set)}

NoBitmap == [present |-> FALSE, ids |-> {}]

AffinityStart ==
  /\ apc = "start"
  /\ affinity \in [Pids -> (SUBSET CpuIds) \ {{}}]
  /\ caller \in Pids
  /\ pid \in Pids
  /\ cpuset = {}
  /\ affinity_cpus = NoBitmap

AffinityIdle ==
  /\ apc = "idle" /\ affinity = [p \in Pids |-> {0}]
  /\ caller = 100 /\ pid = 100
  /\ cpuset = {} /\ affinity_cpus = NoBitmap

\* lines 262-287
os_get_cpu_affinity_bitmap ==
  /\ apc = "start"
  /\ \/ /\ cpuset' = sched_getaffinity(query_pid(pid))
        /\ affinity_cpus' = [present |-> TRUE, ids |-> translate(cpuset')]
     \/ /\ cpuset' = {}                               \* ret < 0
        /\ affinity_cpus' = NoBitmap
  /\ apc' = "done"
  /\ UNCHANGED <<affinity, caller, pid>>
  /\ UNCHANGED <<readerVars, basenameVars, putsVars>>

(* ---------------------------------------------------------------------- *)
(* Specifications                                                          *)
(* ---------------------------------------------------------------------- *)
InitReader == ReaderStart /\ BasenameIdle /\ PutsIdle /\ AffinityIdle

NextReader ==
  \/ clib_file_contents_stat
  \/ clib_file_read_contents_open
  \/ clib_file_read_contents_read
  \/ clib_file_read_contents_done
  \/ clib_file_contents_return
  \/ unix_proc_file_contents_open
  \/ unix_proc_file_contents_read
  \/ unix_proc_file_contents_return
  \/ Truncate

SpecReader == InitReader /\ [][NextReader]_vars

InitBasename == ReaderIdle /\ BasenameStart /\ PutsIdle /\ AffinityIdle

NextBasename ==
  \/ clib_file_get_resolved_basename
  \/ Relink

SpecBasename == InitBasename /\ [][NextBasename]_vars

InitPuts == ReaderIdle /\ BasenameIdle /\ PutsStart /\ AffinityIdle

NextPuts ==
  \/ \E u \in Units : os_puts_build(u)
  \/ \E u \in Units : os_puts_writev(u)

SpecPuts == InitPuts /\ [][NextPuts]_vars

InitAffinity == ReaderIdle /\ BasenameIdle /\ PutsIdle /\ AffinityStart

NextAffinity == os_get_cpu_affinity_bitmap

SpecAffinity == InitAffinity /\ [][NextAffinity]_vars

(* ---------------------------------------------------------------------- *)
(* Properties                                                              *)
(* ---------------------------------------------------------------------- *)
Range(q) == {q[i] : i \in 1..Len(q)}

\* C1: the exact reader returns success only with exactly n_bytes bytes read
\* into a buffer of exactly n_bytes bytes (n_bytes being the size stat
\* reported for a regular file); once end-of-stream was seen before n_bytes
\* bytes were obtained it returns an error and hands out no buffer.
C1_ExactLength ==
  (op = "exact" /\ pc = "done") =>
    /\ ret = "none" =>
         /\ result.set
         /\ s.isreg => n_bytes = s.st_size
         /\ Len(result.v) = n_bytes
         /\ n_done = n_bytes
         /\ result.v = returned
    /\ saw_eof /\ n_done < n_bytes => ret # "none" /\ ~result.set

\* a truncation between two reads made the second one hit end-of-stream
C1_Witness ==
  /\ op = "exact" /\ pc = "done" /\ ret = "short"
  /\ n_trunc = 1 /\ n_reads >= 2 /\ n_done >= 1 /\ n_done < n_bytes

\* C2: after the zero-byte read the streaming reader returns, with no error,
\* the chunks the reads returned, concatenated in order, whatever the entry's
\* kind and reported size.
C2_StreamContent ==
  (op = "stream" /\ pc = "done" /\ saw_eof) =>
    /\ ret = "none"
    /\ result.set
    /\ Len(result.v) = Len(returned)
    /\ result.v = returned

\* a pseudo-file reporting size 0, longer than a chunk, read in short pieces
C2_Witness ==
  /\ op = "stream" /\ pc = "done" /\ saw_eof
  /\ ~file.isreg /\ file.st_size = 0
  /\ Len(result.v) > CHUNK /\ n_short >= 1 /\ n_reads >= 4

\* C5: when a reader has returned, the descriptor it opened is closed, and
\* close was called exactly once per successful open.
C5_DescriptorClosed ==
  /\ pc \in {"ret", "done"} => open_fds = {} /\ n_close = n_open
  /\ n_close <= n_open

\* the streaming reader returned a read error after a successful open
C5_Witness ==
  /\ op = "stream" /\ pc = "done" /\ ret = "read"
  /\ n_open = 1 /\ n_close = 1 /\ n_reads >= 2

\* C6: a reader that fails returns an error with its buffer released and the
\* result slot untouched; the slot is written only when the reader succeeds,
\* and an open failure after the allocation is reported as an error.
C6_FailureReleases ==
  /\ pc = "done" /\ ret # "none" => heap = {} /\ result = NoResult
  /\ result.set => pc = "done" /\ ret = "none"
  /\ pc = "done" /\ op = "exact" /\ file.exists /\ ~file.readable =>
       ret = "open"

\* the exact reader failed on a read error with part of the buffer filled
C6_Witness ==
  /\ op = "exact" /\ pc = "done" /\ ret = "read"
  /\ n_done >= 1 /\ heap = {} /\ result = NoResult

\* C9: on an entry that stat and open accept, the exact reader returns an
\* empty buffer and no error, without any read, when stat reports a regular
\* file of size 0 and when it reports an entry that is not a regular file.
C9_ZeroLength ==
  (op = "exact" /\ pc = "done" /\ file.exists /\ file.readable
     /\ (~s.isreg \/ s.st_size = 0)) =>
    /\ ret = "none"
    /\ result.set
    /\ result.v = << >>
    /\ n_reads = 0

\* a non-regular entry that holds data and reports a non-zero size
C9_Witness ==
  /\ op = "exact" /\ pc = "done" /\ ret = "none"
  /\ ~file.isreg /\ Len(file.data) > 0 /\ s.st_size = CHUNK

\* C10: whenever the streaming reader is about to read, the buffer has room
\* for CHUNK bytes at the cursor and the cursor is the number of bytes the
\* reads have returned; no read stores past the end of the buffer.
C10_RoomForChunk ==
  /\ (op = "stream" /\ pc = "sloop") =>
        /\ Len(rv) >= pos + CHUNK
        /\ pos = Len(returned)
  /\ op = "stream" => ~oob

\* about to read again after more than one chunk came in short pieces
C10_Witness ==
  /\ op = "stream" /\ pc = "sloop" /\ pos > CHUNK /\ n_short >= 1

\* C3: a resolved basename is never empty and never contains "/".
C3_NoSeparator ==
  (bpc = "done" /\ bn.present) =>
    /\ Component(bn.s) # << >>
    /\ "/" \notin Range(Component(bn.s))

\* value of a string of decimal digits
RECURSIVE DecimalValue(_)
DecimalValue(d) ==
  IF d = << >> THEN 0
  ELSE 10 * DecimalValue(SubSeq(d, 1, Len(d) - 1))
       + (CHOOSE k \in 0..9 : DigitChar[k + 1] = d[Len(d)])

\* what the call n of unit u has to put on its stream
IsExpected(bytes, u, n) ==
  LET str == calls[u][n].string
  IN IF nthreads = 1 THEN bytes = str
     ELSE /\ Len(bytes) >= Len(str) + 3
          /\ SubSeq(bytes, Len(bytes) - Len(str) + 1, Len(bytes)) = str
          /\ LET pre == SubSeq(bytes, 1, Len(bytes) - Len(str))
             IN /\ pre[Len(pre)] = " "
                /\ pre[Len(pre) - 1] = ":"
                /\ Range(SubSeq(pre, 1, Len(pre) - 2)) \subseteq Range(DigitChar)
                /\ DecimalValue(SubSeq(pre, 1, Len(pre) - 2))
                     = os_thread_index[u]

\* positions of stream fd that hold bytes of call n of unit u
Positions(fd, u, n) ==
  {i \in 1..Len(stream[fd]) : stream[fd][i].u = u /\ stream[fd][i].call = n}

\* C4: every os_puts call whose write went through has put on its stream
\* exactly its payload (unit count 1) or its unit's index, ": " and the
\* payload (unit count > 1), as one run of consecutive bytes with no byte of
\* another call in between, and nothing on the other stream; a call still
\* before its writev has put nothing.
C4_AtomicWrite ==
  \A u \in Units :
    /\ \A n \in 1..Len(calls[u]) :
         LET c == calls[u][n]
             at == Positions(c.fd, u, n)
         IN /\ Positions(3 - c.fd, u, n) = {}
            /\ ~c.ok => at = {}
            /\ c.ok =>
                 /\ at # {}
                 /\ \A i, j \in at : \A k \in i..j : k \in at
                 /\ LET lo == CHOOSE i \in at : \A j \in at : i <= j
                        hi == CHOOSE i \in at : \A j \in at : i >= j
                    IN IsExpected([k \in 1..(hi - lo + 1) |->
                                     stream[c.fd][lo + k - 1].c], u, n)
    /\ \A fd \in {1, 2} : Positions(fd, u, Len(calls[u]) + 1) = {}

\* two units, with more than one unit reported, both wrote to the same stream
C4_Witness ==
  /\ nthreads > 1
  /\ os_thread_index[0] = 12
  /\ Len(calls[0]) = 1 /\ Len(calls[1]) = 1
  /\ calls[0][1].ok /\ calls[1][1].ok
  /\ calls[0][1].fd = calls[1][1].fd
  /\ stream[calls[0][1].fd][1].u = 1

\* C7: the returned bit-set holds exactly the ids of the bits set in the
\* native record.
C7_AllBitsTranslated ==
  (apc = "done" /\ affinity_cpus.present) => affinity_cpus.ids = cpuset

\* C8: the result for pid is the affinity of process pid, not the caller's;
\* stated for masks that lie inside the translated width, so that a lost
\* high bit cannot be what makes the two differ.
C8_AffinityOfPid ==
  (/\ apc = "done" /\ affinity_cpus.present
   /\ affinity[pid] # affinity[caller]
   /\ \A p \in Pids : affinity[p] \subseteq 0..(SIZEOF_CPU_SET_T - 1)) =>
    affinity_cpus.ids = affinity[pid]

====
